---- MODULE Spec2Model ----
(***************************************************************************)
(* Verification model of copulae: the Archimedean copula base class        *)
(* (copulae/archimedean/abstract.py), the empirical copula                 *)
(* (copulae/empirical/empirical.py) and the Stirling number helpers that   *)
(* tests/utility/special_func.py exercises.                                *)
(***************************************************************************)
EXTENDS Integers, Sequences, FiniteSets, TLC

VARIABLES
    generator,  \* the psi / ipsi overrides of the concrete Archimedean subclass
    arch,       \* the Archimedean instance the last constructor call returned
    archOut,    \* the last Archimedean call: its arguments, error and value
    emp,        \* the EmpiricalCopula instance the last constructor call returned
    empOut,     \* the last EmpiricalCopula call: its arguments, error and value
    rng,        \* numpy's process-wide generator state (np.random)
    memo,       \* the first seeded random() call seen and what it returned
    stOut       \* the last stirling_first / stirling_second call

vars == <<generator, arch, archOut, emp, empOut, rng, memo, stOut>>

archVars == <<generator, arch, archOut>>
empVars == <<emp, empOut, rng, memo>>

(***************************************************************************)
(* Python values                                                           *)
(***************************************************************************)

\* An optional value: None, or the one value
None == <<>>
Some(x) == <<x>>
Get(o) == o[1]

NoError == "none"

\* A Python number, a Python string (a sequence of characters) or None
PyNum(i) == [t |-> "num", v |-> i, s |-> <<>>]
PyStr(str) == [t |-> "str", v |-> 0, s |-> str]
PyNone == [t |-> "none", v |-> 0, s |-> <<>>]

UpperChars == <<"A", "B", "C", "D", "E", "F", "G", "H", "I", "J", "K", "L", "M",
                "N", "O", "P", "Q", "R", "S", "T", "U", "V", "W", "X", "Y", "Z">>
LowerChars == <<"a", "b", "c", "d", "e", "f", "g", "h", "i", "j", "k", "l", "m",
                "n", "o", "p", "q", "r", "s", "t", "u", "v", "w", "x", "y", "z">>
Digits == <<"0", "1", "2", "3", "4", "5", "6", "7", "8", "9">>

IndexIn(seq, c) == CHOOSE i \in 1..Len(seq) : seq[i] = c
IsIn(seq, c) == \E i \in 1..Len(seq) : seq[i] = c

\* str.lower(), character by character
LowerChar(c) == IF IsIn(UpperChars, c) THEN LowerChars[IndexIn(UpperChars, c)] ELSE c
StrLower(str) == [i \in 1..Len(str) |-> LowerChar(str[i])]

\* The value of a string of decimal digits
RECURSIVE DigitsValue(_)
DigitsValue(str) ==
    IF Len(str) = 0 THEN 0
    ELSE 10 * DigitsValue(SubSeq(str, 1, Len(str) - 1)) + (IndexIn(Digits, str[Len(str)]) - 1)

IsDigits(str) == Len(str) > 0 /\ \A i \in 1..Len(str) : IsIn(Digits, str[i])

\* float(x): a number converts to itself, a string of digits with an optional
\* sign to its value; any other string raises ValueError, None raises TypeError
PyFloat(x) ==
    IF x.t = "num" THEN [err |-> NoError, v |-> x.v]
    ELSE IF x.t = "str" /\ IsDigits(x.s) THEN [err |-> NoError, v |-> DigitsValue(x.s)]
    ELSE IF x.t = "str" /\ Len(x.s) > 1 /\ x.s[1] = "-" /\ IsDigits(Tail(x.s))
         THEN [err |-> NoError, v |-> 0 - DigitsValue(Tail(x.s))]
    ELSE IF x.t = "str" THEN [err |-> "ValueError", v |-> 0]
    ELSE [err |-> "TypeError", v |-> 0]

(***************************************************************************)
(* AbstractArchimedeanCopula                                               *)
(***************************************************************************)

MaxDim == 3
MaxTheta == 1
MaxRows == 2

clayton == <<"c", "l", "a", "y", "t", "o", "n">>
frank == <<"f", "r", "a", "n", "k">>
amh == <<"a", "m", "h">>
gumbel == <<"g", "u", "m", "b", "e", "l">>
joe == <<"j", "o", "e">>

families == {clayton, frank, amh, gumbel, joe}

DimInputs == 0..MaxDim
ThetaInputs ==
    {PyNum(i) : i \in (0 - MaxTheta)..MaxTheta}
        \cup {PyStr(<<"2">>), PyStr(<<"-", "1">>), PyStr(<<"a", "b", "c">>), PyNone}
FamilyInputs ==
    families \cup {<<"C", "l", "a", "y", "t", "o", "n">>, <<"F", "R", "A", "N", "K">>,
                   <<"J", "o", "E">>, <<"g", "a", "u", "s", "s">>, <<"T">>}

\* __init__ with the sign check applied in every dimension
ArchInitSignAnyDim(dim, theta, family) ==
    LET fam == StrLower(family)
        th == PyFloat(theta)
    IN  IF th.err # NoError
        THEN [err |-> "ValueError: theta must be a float", obj |-> None]
        ELSE IF dim < 2
        THEN [err |-> "ValueError: dim must be >= 2", obj |-> None]
        ELSE IF th.v < 0
        THEN [err |-> "ValueError: theta can only be negative when dim = 2", obj |-> None]
        ELSE IF fam \notin families
        THEN [err |-> "ValueError: Unknown family of Archimedean copula", obj |-> None]
        ELSE [err |-> NoError, obj |-> Some([dim |-> dim, theta |-> th.v, family |-> fam])]

\* The result of the checks of __init__: the error raised, or the fields set
ArchInit(dim, theta, family) ==
    LET fam == StrLower(family)
        th == PyFloat(theta)
    IN  IF th.err = "ValueError"
        THEN [err |-> "ValueError: theta must be a float", obj |-> None]
        ELSE IF th.err = "TypeError"
        THEN [err |-> "TypeError", obj |-> None]
        ELSE IF dim < 2
        THEN [err |-> "ValueError: dim must be >= 2", obj |-> None]
        ELSE IF dim > 2 /\ th.v < 0
        THEN [err |-> "ValueError: theta can only be negative when dim = 2", obj |-> None]
        ELSE IF fam \notin families
        THEN [err |-> "ValueError: Unknown family of Archimedean copula", obj |-> None]
        ELSE [err |-> NoError, obj |-> Some([dim |-> dim, theta |-> th.v, family |-> fam])]

ArchConstruct(dim, theta, family) ==
    LET r == ArchInit(dim, theta, family)
    IN  /\ arch' = r.obj
        /\ archOut' = [op |-> "init", dim |-> dim, theta |-> theta, family |-> family,
                       err |-> r.err]
        /\ UNCHANGED <<generator, empVars, stOut>>

\* The grid of pseudo-observation values a query matrix is built from
UGrid == {1, 2}

\* All matrices of 1..rows rows and cols columns with entries in S
Matrices(rows, cols, S) == UNION {[1..r -> [1..cols -> S]] : r \in 1..rows}

RECURSIVE SumSeq(_)
SumSeq(seq) == IF Len(seq) = 0 THEN 0 ELSE seq[1] + SumSeq(Tail(seq))

Max(a, b) == IF a >= b THEN a ELSE b

\* The generator pairs a concrete family may supply: psi defined on every sum
\* of dim values of ipsi, decreasing, with values 0 (the number zero), 1 and 2
Generators ==
    {[ipsi |-> [x \in UGrid |-> 2 - x],
      psi |-> [s \in 0..(2 * (MaxDim + 1)) |-> Max(2 - s, 0)]],
     [ipsi |-> [x \in UGrid |-> 2 * (2 - x)],
      psi |-> [s \in 0..(2 * (MaxDim + 1)) |-> Max(2 - (s \div 2), 0)]],
     [ipsi |-> [x \in UGrid |-> 3 - x],
      psi |-> [s \in 0..(2 * (MaxDim + 1)) |-> IF s <= 2 THEN 2 ELSE IF s <= 4 THEN 1 ELSE 0]]}

\* psi and ipsi of the instance, element by element
Psi(s) == [r \in 1..Len(s) |-> generator.psi[s[r]]]
Ipsi(u) == [r \in 1..Len(u) |-> [c \in 1..Len(u[r]) |-> generator.ipsi[u[r][c]]]]

\* ndarray.sum(1): the sum of each row over its columns
SumAxis1(m) == [r \in 1..Len(m) |-> SumSeq(m[r])]

\* np.log and np.exp, element by element: the logarithm of x is the term
\* [ln |-> x], which np.exp takes back to x
NpLog(v) == [r \in 1..Len(v) |-> [ln |-> v[r]]]
NpExp(v) == [r \in 1..Len(v) |-> v[r].ln]

\* cdf with the logarithm taken of the generator sum instead of psi of it
ArchCdfLogOfSum(u, log) ==
    IF log THEN NpLog(SumAxis1(Ipsi(u))) ELSE Psi(SumAxis1(Ipsi(u)))

ArchCdfValue(u, log) ==
    LET cdf == Psi(SumAxis1(Ipsi(u)))
    IN  IF log THEN NpLog(cdf) ELSE cdf

\* The number of columns of the instance, 0 when there is none
ArchDim == IF arch = None THEN 0 ELSE Get(arch).dim

ArchCdf(u, log) ==
    /\ arch # None
    /\ archOut' = [op |-> "cdf", u |-> u, log |-> log, err |-> NoError,
                   value |-> ArchCdfValue(u, log)]
    /\ UNCHANGED <<generator, arch, empVars, stOut>>

NoCall == [op |-> "none", err |-> NoError]

NoGenerator == [ipsi |-> <<>>, psi |-> <<>>]

ArchIdle ==
    /\ generator = NoGenerator
    /\ arch = None
    /\ archOut = NoCall

EmpIdle ==
    /\ emp = None
    /\ empOut = NoCall
    /\ rng = 0
    /\ memo = None

InitArchimedean ==
    /\ generator \in Generators
    /\ arch = None
    /\ archOut = NoCall
    /\ EmpIdle
    /\ stOut = NoCall

NextArchimedean ==
    \E dim \in DimInputs, theta \in ThetaInputs, family \in FamilyInputs :
        ArchConstruct(dim, theta, family)

SpecArchimedean == InitArchimedean /\ [][NextArchimedean]_vars

\* Construction and cdf calls, over the constructor arguments that decide
\* whether there is an instance and how many columns it has
CdfDimInputs == {2, 3}
CdfThetaInputs == {PyNum(0 - 1), PyNum(1)}
CdfFamilyInputs == {clayton, <<"F", "R", "A", "N", "K">>}

NextArchimedeanCdf ==
    \/ \E dim \in CdfDimInputs, theta \in CdfThetaInputs, family \in CdfFamilyInputs :
            ArchConstruct(dim, theta, family)
    \/ \E u \in Matrices(MaxRows, ArchDim, UGrid), log \in BOOLEAN :
            ArchCdf(u, log)

SpecArchimedeanCdf == InitArchimedean /\ [][NextArchimedeanCdf]_vars

(***************************************************************************)
(* Claims about AbstractArchimedeanCopula                                  *)
(***************************************************************************)

Convertible(theta) == PyFloat(theta).err = NoError
Supported(family) == \E f \in families : StrLower(family) = f

\* C1: constructing from (dim, theta, family) fails and yields no instance when
\* theta is not convertible to a real, or dim < 2, or dim > 2 with theta < 0, or
\* the lower-cased family is not one of the five names; with dim = 2 and a
\* supported name in any letter case every real theta is accepted.
ArchValidation ==
    archOut.op = "init" =>
        LET dim == archOut.dim
            theta == archOut.theta
            family == archOut.family
            rejected == \/ ~Convertible(theta)
                        \/ dim < 2
                        \/ Convertible(theta) /\ dim > 2 /\ PyFloat(theta).v < 0
                        \/ ~Supported(family)
        IN  /\ rejected => arch = None /\ archOut.err # NoError
            /\ (dim = 2 /\ Supported(family) /\ Convertible(theta)) =>
                    /\ archOut.err = NoError
                    /\ arch = Some([dim |-> 2, theta |-> PyFloat(theta).v,
                                    family |-> StrLower(family)])

\* dim = 2, theta = -1 and the name FRANK in capitals construct an instance
ArchNegativeThetaAccepted ==
    /\ archOut.op = "init"
    /\ archOut.dim = 2
    /\ archOut.theta = PyNum(0 - 1)
    /\ archOut.family = <<"F", "R", "A", "N", "K">>
    /\ arch # None
    /\ Get(arch).theta = 0 - 1

\* The sum over the columns of row r of ipsi(u), column by column
RECURSIVE IpsiRowSum(_, _, _)
IpsiRowSum(u, r, c) ==
    IF c = 0 THEN 0 ELSE IpsiRowSum(u, r, c - 1) + generator.ipsi[u[r][c]]

\* C7: cdf(u, log=False) is, row by row, psi of the sum over the row's columns
\* of ipsi(u); cdf(u, log=True) is the logarithm of that same vector, so its
\* exponential is cdf(u, log=False).
ArchCdfLogConsistent ==
    archOut.op = "cdf" =>
        LET u == archOut.u
            rowwise == [r \in 1..Len(u) |-> generator.psi[IpsiRowSum(u, r, Len(u[r]))]]
        IN  /\ ~archOut.log => archOut.value = rowwise
            /\ archOut.log =>
                    /\ archOut.value = NpLog(rowwise)
                    /\ NpExp(archOut.value) = ArchCdfValue(u, FALSE)

\* A log=True call on a two-row matrix of a three-dimensional copula whose rows
\* have different values
ArchLogCdfComputed ==
    /\ archOut.op = "cdf"
    /\ archOut.log
    /\ arch # None
    /\ Get(arch).dim = 3
    /\ Len(archOut.u) = 2
    /\ archOut.value[1] # archOut.value[2]

(***************************************************************************)
(* EmpiricalCopula                                                         *)
(***************************************************************************)

\* Values of pseudo-observations are counted in grid units: One units make
\* the value 1 and EPSILON is one unit, so k stands for k / One
One == 4
EPSILON == 1

MaxSeed == 2
MaxDraws == 2
MaxCdfRows == 1

\* A numpy array: its number of axes and its rows (with one axis, its items as
\* the one row held)
NdArray2(rows) == [ndim |-> 2, a |-> rows]
NdArray1(items) == [ndim |-> 1, a |-> <<items>>]

\* len(data) and data.shape[1]
Shape0(data) == Len(data.a)
Shape1(data) == Len(data.a[1])

Column(m, c) == [r \in 1..Len(m) |-> m[r][c]]

DataA == NdArray2(<<<<10, 30>>, <<20, 10>>, <<30, 20>>>>)
DataB == NdArray2(<<<<7, 2>>, <<5, 8>>, <<9, 4>>>>)
DataOneColumn == NdArray2(<<<<1>>, <<2>>, <<3>>>>)
DataVector == NdArray1(<<1, 2, 3>>)

DataInputs == {DataA, DataB, DataOneColumn, DataVector}
SmoothingInputs ==
    {None, Some("none"), Some("beta"), Some("checkerboard"), Some("Beta"), Some("gaussian")}
TiesInputs == {"average", "min", "max", "dense", "ordinal", "first"}
OffsetInputs == {0, 1}

\* The smoothing setter: None stands for "none"; any other name fails the assertion
SmoothingSetter(smoothing) ==
    LET name == IF smoothing = None THEN "none" ELSE Get(smoothing)
    IN  IF name \in {"none", "beta", "checkerboard"}
        THEN [err |-> NoError, v |-> name]
        ELSE [err |-> "AssertionError: Smoothing must be 'none', 'beta' or 'checkerboard'",
              v |-> name]

\* The ties setter stores the value as it is
TiesSetter(value) == value

\* __init__: the two setters, then the assertions on the data.  The closing
\* init_validate() is BaseCopula's and adds no check on ties or smoothing.
EmpInit(data, smoothing, ties, offset) ==
    LET sm == SmoothingSetter(smoothing)
    IN  IF sm.err # NoError
        THEN [err |-> sm.err, obj |-> None]
        ELSE IF data.ndim # 2
        THEN [err |-> "AssertionError", obj |-> None]
        ELSE IF ~(Shape1(data) > 1)
        THEN [err |-> "AssertionError: Dimension must be >= 2", obj |-> None]
        ELSE [err |-> NoError,
              obj |-> Some([ties |-> TiesSetter(ties), offset |-> offset, smoothing |-> sm.v,
                            data |-> data, dim |-> Shape1(data)])]

EmpConstruct(data, smoothing, ties, offset) ==
    LET r == EmpInit(data, smoothing, ties, offset)
    IN  /\ emp' = r.obj
        /\ empOut' = [op |-> "init", data |-> data, smoothing |-> smoothing, ties |-> ties,
                      offset |-> offset, err |-> r.err]
        /\ memo' = None
        /\ UNCHANGED <<rng, archVars, stOut>>

EmpSetSmoothing(smoothing) ==
    /\ emp # None
    /\ LET sm == SmoothingSetter(smoothing)
       IN  /\ emp' = IF sm.err = NoError
                     THEN Some([Get(emp) EXCEPT !.smoothing = sm.v])
                     ELSE emp
           /\ empOut' = [op |-> "set_smoothing", smoothing |-> smoothing, err |-> sm.err]
    /\ UNCHANGED <<rng, memo, archVars, stOut>>

EmpSetTies(value) ==
    /\ emp # None
    /\ emp' = Some([Get(emp) EXCEPT !.ties = TiesSetter(value)])
    /\ empOut' = [op |-> "set_ties", ties |-> value, err |-> NoError]
    /\ UNCHANGED <<rng, memo, archVars, stOut>>

\* fit: warns and returns the instance as it is
EmpFit ==
    /\ emp # None
    /\ empOut' = [op |-> "fit", err |-> NoError, warned |-> TRUE]
    /\ UNCHANGED <<emp, rng, memo, archVars, stOut>>

(***************************************************************************)
(* Ranks and pseudo-observations (copulae.core)                            *)
(***************************************************************************)

TiesMethods == {"average", "min", "max", "dense", "ordinal"}

CountLess(col, i) == Cardinality({j \in 1..Len(col) : col[j] < col[i]})
CountEqual(col, i) == Cardinality({j \in 1..Len(col) : col[j] = col[i]})
CountEqualBefore(col, i) == Cardinality({j \in 1..(i - 1) : col[j] = col[i]})
DistinctLess(col, i) == Cardinality({col[j] : j \in {k \in 1..Len(col) : col[k] < col[i]}})

\* Twice the rank of item i of a column (twice, as "average" gives half ranks)
Rank2(col, i, ties) ==
    IF ties = "average" THEN 2 * CountLess(col, i) + CountEqual(col, i) + 1
    ELSE IF ties = "min" THEN 2 * (CountLess(col, i) + 1)
    ELSE IF ties = "max" THEN 2 * (CountLess(col, i) + CountEqual(col, i))
    ELSE IF ties = "dense" THEN 2 * (DistinctLess(col, i) + 1)
    ELSE 2 * (CountLess(col, i) + CountEqualBefore(col, i) + 1)

\* rank_data(m, 1, ties): the ranks within each column, doubled
RankData(m, ties) ==
    IF ties \notin TiesMethods
    THEN [err |-> "ValueError: unknown ties method", v |-> <<>>]
    ELSE [err |-> NoError,
          v |-> [r \in 1..Len(m) |-> [c \in 1..Len(m[r]) |-> Rank2(Column(m, c), r, ties)]]]

\* pobs(m, ties): ranks / (n + 1), as the numerators num over the denominator den
Pobs(m, ties) ==
    LET rk == RankData(m, ties)
    IN  [err |-> rk.err, num |-> rk.v, den |-> 2 * (Len(m) + 1)]

(***************************************************************************)
(* EmpiricalCopula.cdf                                                     *)
(***************************************************************************)

DomainError == "ValueError: input array must be pseudo observations"

Entries(u) == {u[r][c] : r \in 1..Len(u), c \in 1..Len(u[1])}

\* The domain check with the tolerance left out
CdfOutOfDomainNoTolerance(u) ==
    (\E x \in Entries(u) : x > One) \/ (\E x \in Entries(u) : x < 0)

\* np.any(u > (1 + EPSILON)) or np.any(u < -EPSILON)
CdfOutOfDomain(u) ==
    (\E x \in Entries(u) : x > One + EPSILON) \/ (\E x \in Entries(u) : x < 0 - EPSILON)

\* emp_dist_func(u, uu, smoothing, offset): one value per row of u, kept as the
\* term of its arguments
EmpDistFunc(u, uu, smoothing, offset) ==
    [r \in 1..Len(u) |-> [fn |-> "emp_dist_func", x |-> u[r], uu |-> uu,
                          smoothing |-> smoothing, offset |-> offset]]

EmpCdfResult(self, u, log) ==
    IF CdfOutOfDomain(u)
    THEN [err |-> DomainError, value |-> None]
    ELSE LET uu == Pobs(self.data.a, self.ties)
         IN  IF uu.err # NoError
             THEN [err |-> uu.err, value |-> None]
             ELSE LET cdf == EmpDistFunc(u, uu, self.smoothing, self.offset)
                  IN  [err |-> NoError, value |-> Some(IF log THEN NpLog(cdf) ELSE cdf)]

EmpCdf(u, log) ==
    /\ emp # None
    /\ LET r == EmpCdfResult(Get(emp), u, log)
       IN  empOut' = [op |-> "cdf", u |-> u, log |-> log, err |-> r.err, value |-> r.value]
    /\ UNCHANGED <<emp, rng, memo, archVars, stOut>>

(***************************************************************************)
(* EmpiricalCopula.pdf                                                     *)
(***************************************************************************)

RECURSIVE Fact(_)
Fact(n) == IF n <= 0 THEN 1 ELSE n * Fact(n - 1)

RECURSIVE Pow(_, _)
Pow(x, k) == IF k <= 0 THEN 1 ELSE x * Pow(x, k - 1)

RECURSIVE Gcd(_, _)
Gcd(a, b) == IF b = 0 THEN a ELSE Gcd(b, a % b)

\* The fraction num / den in lowest terms
Rat(num, den) == [num |-> num \div Gcd(num, den), den |-> den \div Gcd(num, den)]

RECURSIVE ProdSeq(_)
ProdSeq(seq) == IF Len(seq) = 0 THEN 1 ELSE seq[1] * ProdSeq(Tail(seq))

\* beta.pdf(p / q, a, b = n + 1 - a) for a whole rank a, times q^(n-1):
\* n! / ((a-1)! (n-a)!) * p^(a-1) * (q-p)^(n-a)
BetaPdfNum(p, q, a, n) ==
    (Fact(n) \div (Fact(a - 1) * Fact(n - a))) * Pow(p, a - 1) * Pow(q - p, n - a)

\* sum over the reference rows' ranks of the product over the columns of the
\* Beta densities at the row x = p / q, divided by n + offset
BetaDensity(p, q, dataRank2, n, offset) ==
    LET d == Len(p)
        perRow == [i \in 1..Len(dataRank2) |->
                      ProdSeq([c \in 1..d |-> BetaPdfNum(p[c], q, dataRank2[i][c] \div 2, n)])]
    IN  Rat(SumSeq(perRow), Pow(q, (n - 1) * d) * (n + offset))

PdfAssertion == "AssertionError: Empirical Copula only has density (PDF) for 'beta' smoothing"

\* The assertion of pdf, passing for every smoothed copula
PdfPreconditionAnySmoothing(self) == self.smoothing # "none"

\* assert self.smoothing == "beta"
PdfPrecondition(self) == self.smoothing = "beta"

EmpPdfResult(self, u, log) ==
    IF ~PdfPrecondition(self)
    THEN [err |-> PdfAssertion, value |-> None]
    ELSE LET x == Pobs(u, self.ties)
             dataRank == RankData(self.data.a, self.ties)
             n == Shape0(self.data)
         IN  IF x.err # NoError
             THEN [err |-> x.err, value |-> None]
             ELSE LET pdf == [r \in 1..Len(u) |->
                                 BetaDensity(x.num[r], x.den, dataRank.v, n, self.offset)]
                  IN  [err |-> NoError, value |-> Some(IF log THEN NpLog(pdf) ELSE pdf)]

EmpPdf(u, log) ==
    /\ emp # None
    /\ LET r == EmpPdfResult(Get(emp), u, log)
       IN  empOut' = [op |-> "pdf", u |-> u, log |-> log, err |-> r.err, value |-> r.value]
    /\ UNCHANGED <<emp, rng, memo, archVars, stOut>>

(***************************************************************************)
(* EmpiricalCopula.random                                                  *)
(***************************************************************************)

\* np.random.seed(seed): the generator state the seed fixes
NpSeed(seed) == (7 * seed + 3) % 16

\* One step of the generator, and the integer in [0, high) a state yields
RandNext(r) == (5 * r + 1) % 16
RandInt(r, high) == (r \div 4) % high

\* np.random.randint(0, high, n) from state r: the n integers and the state left
RECURSIVE Draws(_, _, _)
Draws(r, high, n) ==
    IF n = 0 THEN [idx |-> <<>>, rng |-> r]
    ELSE LET rest == Draws(RandNext(r), high, n - 1)
         IN  [idx |-> <<RandInt(RandNext(r), high)>> \o rest.idx, rng |-> rest.rng]

\* random() that never seeds the generator
RandomStartUnseeded(seed) == rng

\* The generator state the draw starts from: seeded when a seed is given
RandomStart(seed) == IF seed # None THEN NpSeed(Get(seed)) ELSE rng

\* The seeded random call the next call directly follows, if any
LastSeeded ==
    IF empOut.op = "random" /\ empOut.seed # None
    THEN Some([n |-> empOut.n, seed |-> Get(empOut.seed)])
    ELSE None

EmpRandom(n, seed) ==
    /\ emp # None
    /\ LET data == Get(emp).data
           d == Draws(RandomStart(seed), Shape0(data), n)
           value == [i \in 1..n |-> data.a[d.idx[i] + 1]]
       IN  /\ rng' = d.rng
           /\ empOut' = [op |-> "random", n |-> n, seed |-> seed, err |-> NoError,
                         value |-> value, after |-> LastSeeded]
           /\ memo' = IF seed = None THEN memo
                      ELSE IF memo = None
                      THEN Some([n |-> n, seed |-> Get(seed), value |-> value, repeated |-> FALSE])
                      ELSE IF Get(memo).n = n /\ Get(memo).seed = Get(seed)
                      THEN Some([Get(memo) EXCEPT !.repeated = TRUE])
                      ELSE memo
    /\ UNCHANGED <<emp, archVars, stOut>>

(***************************************************************************)
(* EmpiricalCopula.to_marginals                                            *)
(***************************************************************************)

\* np.floor(u * len(self.data)).astype(int) for the entry k / One
FloorIndex(k, n) == (k * n) \div One

\* Column c of the data in ascending order
SortedColumn(data, c) ==
    LET col == Column(data.a, c)
    IN  [j \in 1..Len(col) |-> col[CHOOSE i \in 1..Len(col) : Rank2(col, i, "ordinal") = 2 * j]]

\* source[r, c]: an index below zero counts from the end, one outside
\* [-n, n) raises IndexError
EmpToMarginalsResult(self, u) ==
    LET n == Shape0(self.data)
        index == [r \in 1..Len(u) |-> [c \in 1..Len(u[r]) |-> FloorIndex(u[r][c], n)]]
        outside == \E r \in 1..Len(u) : \E c \in 1..Len(u[r]) :
                        index[r][c] >= n \/ index[r][c] < 0 - n
    IN  IF outside
        THEN [err |-> "IndexError", value |-> None]
        ELSE [err |-> NoError,
              value |-> Some([r \in 1..Len(u) |-> [c \in 1..Len(u[r]) |->
                            SortedColumn(self.data, c)[
                                (IF index[r][c] < 0 THEN index[r][c] + n ELSE index[r][c]) + 1]]])]

EmpToMarginals(u) ==
    /\ emp # None
    /\ LET r == EmpToMarginalsResult(Get(emp), u)
       IN  empOut' = [op |-> "to_marginals", u |-> u, err |-> r.err, value |-> r.value]
    /\ UNCHANGED <<emp, rng, memo, archVars, stOut>>

(***************************************************************************)
(* Specifications of the EmpiricalCopula                                   *)
(***************************************************************************)

MaxQueryRows == 2

InitEmpirical ==
    /\ ArchIdle
    /\ EmpIdle
    /\ stOut = NoCall

\* Construction with every argument, the setters, fit, cdf and pdf
PreconditionQueries == {<<<<1, 2>>>>, <<<<1, 1>>, <<2, 3>>>>}

NextEmpirical ==
    \/ \E data \in DataInputs, smoothing \in SmoothingInputs, ties \in TiesInputs,
          offset \in OffsetInputs :
            EmpConstruct(data, smoothing, ties, offset)
    \/ \E smoothing \in SmoothingInputs : EmpSetSmoothing(smoothing)
    \/ \E value \in TiesInputs : EmpSetTies(value)
    \/ \E u \in PreconditionQueries, log \in BOOLEAN : EmpCdf(u, log)
    \/ \E u \in PreconditionQueries, log \in BOOLEAN : EmpPdf(u, log)
    \/ EmpFit

SpecEmpirical == InitEmpirical /\ [][NextEmpirical]_vars

\* cdf on query matrices whose entries lie at and around the ends of [0, 1]
CdfEntries == {0 - 2 * EPSILON, 0 - EPSILON, 0, One, One + EPSILON, One + 2 * EPSILON}

NextEmpiricalCdf ==
    \/ \E smoothing \in {None, Some("beta"), Some("checkerboard")} :
            EmpConstruct(DataA, smoothing, "average", 0)
    \/ \E u \in Matrices(MaxCdfRows, 2, CdfEntries) : EmpCdf(u, FALSE)

SpecEmpiricalCdf == InitEmpirical /\ [][NextEmpiricalCdf]_vars

\* pdf of the beta copula on query matrices with entries inside (0, 1)
NextEmpiricalPdf ==
    \/ \E ties \in TiesMethods, offset \in OffsetInputs :
            EmpConstruct(DataA, Some("beta"), ties, offset)
    \/ \E u \in Matrices(MaxQueryRows, 2, 1..(One - 1)), log \in BOOLEAN : EmpPdf(u, log)

SpecEmpiricalPdf == InitEmpirical /\ [][NextEmpiricalPdf]_vars

\* random, from any state of the process-wide generator
SeedInputs == {None} \cup {Some(seed) : seed \in 0..MaxSeed}

InitEmpiricalRandom ==
    /\ ArchIdle
    /\ emp = None
    /\ empOut = NoCall
    /\ rng \in 0..15
    /\ memo = None
    /\ stOut = NoCall

NextEmpiricalRandom ==
    \/ \E data \in {DataA, DataB} : EmpConstruct(data, None, "average", 0)
    \/ \E n \in 0..MaxDraws, seed \in SeedInputs : EmpRandom(n, seed)
    \/ EmpFit

SpecEmpiricalRandom == InitEmpiricalRandom /\ [][NextEmpiricalRandom]_vars

\* to_marginals on query matrices with entries in [0, 1]
NextEmpiricalMarginals ==
    \/ \E data \in {DataA, DataB} : EmpConstruct(data, None, "average", 0)
    \/ \E u \in Matrices(MaxQueryRows, 2, 0..One) : EmpToMarginals(u)

SpecEmpiricalMarginals == InitEmpirical /\ [][NextEmpiricalMarginals]_vars

(***************************************************************************)
(* Claims about the EmpiricalCopula                                        *)
(***************************************************************************)

\* C2: constructing with an unrecognized smoothing string or an unrecognized
\* ties string fails at construction, so no instance is returned.
EmpRejectsUnrecognized ==
    empOut.op = "init" =>
        LET unrecognized ==
                \/ empOut.smoothing \notin
                        {None, Some("none"), Some("beta"), Some("checkerboard")}
                \/ empOut.ties \notin {"average", "min", "max", "dense", "ordinal"}
        IN  unrecognized => emp = None /\ empOut.err # NoError

\* C3: cdf(u) fails with the value error, computing nothing, when some entry of
\* u is above 1 + EPSILON or below -EPSILON; when every entry lies in
\* [-EPSILON, 1 + EPSILON], exactly 0 and exactly 1 included, it does not.
EmpCdfDomainCheck ==
    empOut.op = "cdf" =>
        LET u == empOut.u
            outside == \E r \in 1..Len(u) : \E c \in 1..Len(u[r]) :
                            u[r][c] > One + EPSILON \/ u[r][c] < 0 - EPSILON
        IN  /\ outside => empOut.err = DomainError /\ empOut.value = None
            /\ ~outside => empOut.err = NoError /\ empOut.value # None

\* cdf of a row holding exactly 0 and exactly 1 returned a value
EmpCdfAtEnds ==
    /\ empOut.op = "cdf"
    /\ empOut.u[1] = <<0, One>>
    /\ empOut.err = NoError
    /\ empOut.value # None

\* C4: pdf fails its assertion and returns no density whenever the current
\* smoothing mode is not "beta"; the assertion passes only for "beta".
EmpPdfNeedsBeta ==
    empOut.op = "pdf" =>
        /\ Get(emp).smoothing # "beta" => empOut.err = PdfAssertion /\ empOut.value = None
        /\ Get(emp).smoothing = "beta" => empOut.err # PdfAssertion

\* pdf failed its assertion on a checkerboard copula
EmpPdfRefusedCheckerboard ==
    /\ empOut.op = "pdf"
    /\ Get(emp).smoothing = "checkerboard"
    /\ empOut.err = PdfAssertion

\* The rows of the data at the indices n draws from state r yield
RowsDrawn(data, r, n) ==
    [i \in 1..n |-> data.a[Draws(r, Shape0(data), n).idx[i] + 1]]

\* C8: on a fixed dataset two calls random(n, seed=s) with the same n and s
\* return the same n rows of the data whatever happened between them, and an
\* unseeded call directly after random(n, seed=s) is determined by s.
EmpRandomSeeded ==
    empOut.op = "random" =>
        LET data == Get(emp).data
        IN  /\ Len(empOut.value) = empOut.n
            /\ \A i \in 1..empOut.n : \E j \in 1..Shape0(data) : empOut.value[i] = data.a[j]
            /\ (empOut.seed # None /\ memo # None /\ Get(memo).n = empOut.n
                    /\ Get(memo).seed = Get(empOut.seed)) =>
                    empOut.value = Get(memo).value
            /\ (empOut.seed = None /\ empOut.after # None) =>
                    LET first == Get(empOut.after)
                        left == Draws(NpSeed(first.seed), Shape0(data), first.n).rng
                    IN  empOut.value = RowsDrawn(data, left, empOut.n)

\* A seeded call repeated after an unseeded call, with the result of the first
EmpRandomRepeated ==
    /\ empOut.op = "random"
    /\ empOut.seed # None
    /\ empOut.n = MaxDraws
    /\ empOut.after = None
    /\ memo # None
    /\ Get(memo).repeated
    /\ Get(memo).n = empOut.n
    /\ Get(memo).seed = Get(empOut.seed)
    /\ rng # NpSeed(Get(empOut.seed))

\* C9: the density pdf returns for a query row is the sum over the reference
\* rows of the product of the Beta(rank, n + 1 - rank) densities at that row's
\* own coordinates, over n + offset, so it is the same whether the row is
\* passed alone or with other rows.
EmpPdfAtOwnCoordinates ==
    (empOut.op = "pdf" /\ empOut.err = NoError) =>
        LET self == Get(emp)
            u == empOut.u
            value == IF empOut.log THEN NpExp(Get(empOut.value)) ELSE Get(empOut.value)
            ranks == RankData(self.data.a, self.ties).v
        IN  \A r \in 1..Len(u) :
                /\ value[r] = BetaDensity(u[r], One, ranks, Shape0(self.data), self.offset)
                /\ Some(<<value[r]>>) = EmpPdfResult(self, <<u[r]>>, FALSE).value

\* C10: for every u with entries in [0, 1], ends included, to_marginals(u)
\* returns a matrix of the shape of u whose entry in row i, column c is the
\* item at zero-based position floor(u[i,c] * n) of the sorted column c.
EmpToMarginalsOnUnitInterval ==
    (empOut.op = "to_marginals"
        /\ \A r \in 1..Len(empOut.u) : \A c \in 1..2 : empOut.u[r][c] \in 0..One) =>
        LET self == Get(emp)
            u == empOut.u
            n == Shape0(self.data)
        IN  /\ empOut.err = NoError
            /\ empOut.value =
                   Some([r \in 1..Len(u) |-> [c \in 1..Len(u[r]) |->
                       SortedColumn(self.data, c)[((u[r][c] * n) \div One) + 1]]])

(***************************************************************************)
(* stirling_first and stirling_second (copulae.utility.special_func)       *)
(***************************************************************************)

MaxN == 8

\* An argument: an integer, a float num / den that is no integer, or a list
PyInt(i) == [t |-> "int", num |-> i, den |-> 1]
PyFraction(num, den) == [t |-> "float", num |-> num, den |-> den]
PyList == [t |-> "list", num |-> 0, den |-> 1]

StirlingInputs ==
    {PyInt(i) : i \in (0 - 1)..MaxN} \cup {PyFraction(11, 2), PyFraction(2, 5), PyList}

TypeErrorMessage == "TypeError: <k> and <n> must both be integers"
RangeErrorMessage == "ValueError: <k> must be in the range of [0, <n>]"

\* The validation with a float truncated to an integer instead of refused
StirlingCheckTruncating(n, k) ==
    IF n.t = "list" \/ k.t = "list" THEN TypeErrorMessage
    ELSE IF ~(0 <= k.num \div k.den /\ k.num \div k.den <= n.num \div n.den)
    THEN RangeErrorMessage
    ELSE IF n.t # "int" \/ k.t # "int" THEN TypeErrorMessage
    ELSE NoError

\* Both arguments must be integers, and then 0 <= k <= n
StirlingCheck(n, k) ==
    IF n.t # "int" \/ k.t # "int" THEN TypeErrorMessage
    ELSE IF ~(0 <= k.num /\ k.num <= n.num) THEN RangeErrorMessage
    ELSE NoError

\* Row m of the triangle of signed Stirling numbers of the first kind
RECURSIVE SignedFirstRow(_)
SignedFirstRow(m) ==
    IF m = 0 THEN [k \in 0..0 |-> 1]
    ELSE LET prev == SignedFirstRow(m - 1)
         IN  [k \in 0..m |-> (IF k >= 1 THEN prev[k - 1] ELSE 0)
                              - (IF k <= m - 1 THEN (m - 1) * prev[k] ELSE 0)]

StirlingFirstSigned(n, k) == SignedFirstRow(n)[k]

\* Row m of the triangle of Stirling numbers of the first kind, from row m - 1
RECURSIVE FirstRow(_)
FirstRow(m) ==
    IF m = 0 THEN [k \in 0..0 |-> 1]
    ELSE LET prev == FirstRow(m - 1)
         IN  [k \in 0..m |-> (IF k >= 1 THEN prev[k - 1] ELSE 0)
                              + (IF k <= m - 1 THEN (m - 1) * prev[k] ELSE 0)]

\* Row m of the triangle of Stirling numbers of the second kind
RECURSIVE SecondRow(_)
SecondRow(m) ==
    IF m = 0 THEN [k \in 0..0 |-> 1]
    ELSE LET prev == SecondRow(m - 1)
         IN  [k \in 0..m |-> (IF k >= 1 THEN prev[k - 1] ELSE 0)
                              + (IF k <= m - 1 THEN k * prev[k] ELSE 0)]

StirlingFirst(n, k) == FirstRow(n)[k]
StirlingSecond(n, k) == SecondRow(n)[k]

StirlingFirstCall(n, k) ==
    /\ stOut' = [op |-> "stirling_first", n |-> n, k |-> k, err |-> StirlingCheck(n, k),
                 value |-> IF StirlingCheck(n, k) = NoError
                           THEN Some(StirlingFirst(n.num, k.num)) ELSE None]
    /\ UNCHANGED <<archVars, empVars>>

StirlingSecondCall(n, k) ==
    /\ stOut' = [op |-> "stirling_second", n |-> n, k |-> k, err |-> StirlingCheck(n, k),
                 value |-> IF StirlingCheck(n, k) = NoError
                           THEN Some(StirlingSecond(n.num, k.num)) ELSE None]
    /\ UNCHANGED <<archVars, empVars>>

NextStirling ==
    \/ \E n \in StirlingInputs, k \in StirlingInputs : StirlingFirstCall(n, k)
    \/ \E n \in StirlingInputs, k \in StirlingInputs : StirlingSecondCall(n, k)

SpecStirling == InitEmpirical /\ [][NextStirling]_vars

(***************************************************************************)
(* Claims about the Stirling numbers                                       *)
(***************************************************************************)

\* c(n, k) = c(n-1, k-1) + (n-1) * c(n-1, k), with c(0, 0) = 1
RECURSIVE CycleCount(_, _)
CycleCount(n, k) ==
    IF n = 0 /\ k = 0 THEN 1
    ELSE IF n = 0 \/ k = 0 THEN 0
    ELSE CycleCount(n - 1, k - 1) + (n - 1) * CycleCount(n - 1, k)

\* S(n, k) = S(n-1, k-1) + k * S(n-1, k), with S(0, 0) = 1
RECURSIVE PartitionCount(_, _)
PartitionCount(n, k) ==
    IF n = 0 /\ k = 0 THEN 1
    ELSE IF n = 0 \/ k = 0 THEN 0
    ELSE PartitionCount(n - 1, k - 1) + k * PartitionCount(n - 1, k)

\* The values the tests expect
FirstExpected == {<<5, 3, 35>>, <<8, 4, 6769>>, <<8, 5, 1960>>, <<7, 2, 1764>>}
SecondExpected == {<<5, 3, 25>>, <<8, 4, 1701>>, <<8, 5, 1050>>, <<6, 5, 15>>}

ValidStirlingCall ==
    /\ stOut.op \in {"stirling_first", "stirling_second"}
    /\ stOut.n.t = "int"
    /\ stOut.k.t = "int"
    /\ 0 <= stOut.k.num
    /\ stOut.k.num <= stOut.n.num

\* C5: for integers 0 <= k <= n, stirling_first(n, k) is the unsigned Stirling
\* number of the first kind of the recurrence c, stirling_second(n, k) the
\* Stirling number of the second kind of the recurrence S, as exact integers;
\* e.g. first(5,3) = 35, first(8,4) = 6769, first(8,5) = 1960, second(5,3) = 25,
\* second(8,4) = 1701.
StirlingMatchesRecurrence ==
    ValidStirlingCall =>
        LET n == stOut.n.num
            k == stOut.k.num
        IN  /\ stOut.err = NoError
            /\ stOut.op = "stirling_first" =>
                    /\ stOut.value = Some(CycleCount(n, k))
                    /\ \A e \in FirstExpected : (e[1] = n /\ e[2] = k) => stOut.value = Some(e[3])
            /\ stOut.op = "stirling_second" =>
                    /\ stOut.value = Some(PartitionCount(n, k))
                    /\ \A e \in SecondExpected : (e[1] = n /\ e[2] = k) => stOut.value = Some(e[3])

\* stirling_first(8, 5) returned 1960
StirlingFirstOfEightFive ==
    /\ stOut.op = "stirling_first"
    /\ stOut.n = PyInt(8)
    /\ stOut.k = PyInt(5)
    /\ stOut.value = Some(1960)

\* C6: both functions return no number on invalid input: a type error "<k> and
\* <n> must both be integers" when n or k is not an integer, a value error
\* "<k> must be in the range of [0, <n>]" when both are integers and k < 0 or
\* k > n.
StirlingRejectsInvalid ==
    stOut.op \in {"stirling_first", "stirling_second"} =>
        /\ (stOut.n.t # "int" \/ stOut.k.t # "int") =>
                stOut.err = TypeErrorMessage /\ stOut.value = None
        /\ (stOut.n.t = "int" /\ stOut.k.t = "int"
                /\ (stOut.k.num < 0 \/ stOut.k.num > stOut.n.num)) =>
                stOut.err = RangeErrorMessage /\ stOut.value = None

\* stirling_first(4, -1) raised the value error
StirlingNegativeKRejected ==
    /\ stOut.op = "stirling_first"
    /\ stOut.n = PyInt(4)
    /\ stOut.k = PyInt(0 - 1)
    /\ stOut.err = RangeErrorMessage
    /\ stOut.value = None

====
